---- MODULE Spec2Model ----
(***************************************************************************)
(* Model of BevyRayTracing: the motor algebra (src/src/math), the          *)
(* hierarchical transform propagator (src/src/transform.rs), the scene     *)
(* uploader, surface manager and dispatcher                                *)
(* (src/src/render/render_state.rs) and the runner (src/src/window.rs).    *)
(*                                                                         *)
(* Coefficients are f32 in the source; the model computes over the         *)
(* integers, with poses whose coefficients are integers.                   *)
(*                                                                         *)
(* Change detection.  A component carries the tick of its last write and a *)
(* system the tick of its last run; Ref::is_changed() compares the two.    *)
(* The model keeps, per component and per reading system, the boolean that *)
(* comparison yields: set by every write (and by insertion), cleared for   *)
(* every component when the reading system runs.                           *)
(*                                                                         *)
(* Commands are deferred: what add_global_transforms and                   *)
(* remove_global_transforms queue is applied when the schedule ends, after *)
(* update_global_transforms has run.                                       *)
(*                                                                         *)
(* A GPU buffer is its identity, its size in bytes and its decoded         *)
(* content; a bind group is the identity of the buffer it binds.           *)
(* SphereState.buffer, the scratch bytes update_spheres clears on entry,   *)
(* lives within one run and is not part of the state.                      *)
(*                                                                         *)
(* The surface, the main texture and the texture view bound in group 0 are *)
(* their extents.  render is a loop around get_current_texture(): the      *)
(* model takes one step per attempt, with the result of the attempt as the *)
(* step's input, and the runner handles no other event before render       *)
(* returns.                                                                *)
(*                                                                         *)
(* update_global_transforms is one step (Pass) where the scene is well     *)
(* formed, and one step per turn of each closure (Enter, Ascend, Store,    *)
(* Return) where the order of the closures or the end of a walk is in      *)
(* question.  The functions of the math library are operators; SpecMath    *)
(* evaluates their laws on operands drawn once.                            *)
(***************************************************************************)
EXTENDS Integers, Sequences, FiniteSets, TLC

\* ------------------------------------------------------------------ bounds
MaxNodes == 3
MaxOps == 2
MaxSpheres == 2
MaxCameras == 2
MaxEdits == 1
MaxCameraEdits == 2
MaxFrames == 3

Nodes == 1..MaxNodes
NoParent == 0

\* ------------------------------------------------------------ motor algebra
Motor(s, e12, e13, e23, e01, e02, e03, e0123) ==
    [s |-> s, e12 |-> e12, e13 |-> e13, e23 |-> e23,
     e01 |-> e01, e02 |-> e02, e03 |-> e03, e0123 |-> e0123]

Vector3(x, y, z) == [x |-> x, y |-> y, z |-> z]

IDENTITYNegated == Motor(-1, 0, 0, 0, 0, 0, 0, 0)

IDENTITY == Motor(1, 0, 0, 0, 0, 0, 0, 0)

translationShifted(offset) ==
    Motor(1, 0, 0, 0,
          (offset.x * (-1)) \div 2 + 1,
          (offset.y * (-1)) \div 2,
          (offset.z * (-1)) \div 2,
          0)

\* offset * -0.5 per coordinate; the model uses even offsets only
translation(offset) ==
    Motor(1, 0, 0, 0,
          (offset.x * (-1)) \div 2,
          (offset.y * (-1)) \div 2,
          (offset.z * (-1)) \div 2,
          0)

\* rotation_xy(angle) at angle = pi: (sin, cos) of the half angle is (1, 0)
rotation_xy_pi == Motor(0, 1, 0, 0, 0, 0, 0, 0)

applySignSlip(self, other) ==
    LET a == self.s      b == self.e12   c == self.e13   d == self.e23
        e == self.e01    f == self.e02   g == self.e03   h == self.e0123
        i == other.s     j == other.e12  k == other.e13  l == other.e23
        m == other.e01   n == other.e02  o == other.e03  p == other.e0123
    IN  Motor((-b) * j + (-c) * k + (-d) * l + a * i,
              (-c) * l + a * j + b * i + d * k,
              (-d) * j + a * k + b * l + c * i,
              (-b) * k + a * l + c * j + d * i,
              (-d) * p + (-f) * j + (-g) * k + (-h) * l + a * m + b * n + c * o + e * i,
              (-b) * m + (-g) * l + a * n + c * p + d * o + e * j + f * i + h * k,
              (-b) * p + (-c) * m + (-d) * n + (-h) * j + a * o + e * k + f * l + g * i,
              c * n + (-f) * k + a * p + b * o + d * m + e * l + g * j + h * i)

apply(self, other) ==
    LET a == self.s      b == self.e12   c == self.e13   d == self.e23
        e == self.e01    f == self.e02   g == self.e03   h == self.e0123
        i == other.s     j == other.e12  k == other.e13  l == other.e23
        m == other.e01   n == other.e02  o == other.e03  p == other.e0123
    IN  Motor((-b) * j + (-c) * k + (-d) * l + a * i,
              (-c) * l + a * j + b * i + d * k,
              (-d) * j + a * k + b * l + c * i,
              (-b) * k + a * l + c * j + d * i,
              (-d) * p + (-f) * j + (-g) * k + (-h) * l + a * m + b * n + c * o + e * i,
              (-b) * m + (-g) * l + a * n + c * p + d * o + e * j + f * i + h * k,
              (-b) * p + (-c) * m + (-d) * n + (-h) * j + a * o + e * k + f * l + g * i,
              (-c) * n + (-f) * k + a * p + b * o + d * m + e * l + g * j + h * i)

pre_apply(self, other) == apply(other, self)

\* rotation_yz(angle) at angle = pi
rotation_yz_pi == Motor(0, 0, 0, 1, 0, 0, 0, 0)

inverseKeepingSigns(self) == self

\* the reverse: the six bivector coefficients change sign
inverse(self) ==
    Motor(self.s, -self.e12, -self.e13, -self.e23,
          -self.e01, -self.e02, -self.e03, self.e0123)

rotation_part_with_e0123(self) ==
    Motor(self.s, self.e12, self.e13, self.e23, 0, 0, 0, self.e0123)

rotation_part(self) ==
    Motor(self.s, self.e12, self.e13, self.e23, 0, 0, 0, 0)

\* ------------------------------------------------------------------ points
Point(e012, e013, e023, e123) ==
    [e012 |-> e012, e013 |-> e013, e023 |-> e023, e123 |-> e123]

PointTranslate(self, motor) ==
    Point(self.e012 - 2 * motor.e03 * self.e123,
          self.e013 + 2 * motor.e02 * self.e123,
          self.e023 - 2 * motor.e01 * self.e123,
          self.e123)

\* Point::transform(self, motor), term by term
PointTransform(self, motor) ==
    LET a == motor.s     b == motor.e12   c == motor.e13   d == motor.e23
        e == motor.e01   f == motor.e02   g == motor.e03   h == motor.e0123
        i == self.e012   j == self.e013   k == self.e023   l == self.e123
    IN  Point((-2) * a * d * j + (-2) * a * g * l + a * a * i + 2 * a * c * k
                + (-1) * d * d * i + (-2) * d * f * l + 2 * b * d * k + (-2) * b * h * l
                + (-2) * c * e * l + b * b * i + 2 * b * c * j + (-1) * c * c * i,
              (-2) * a * b * k + (-1) * b * b * j + 2 * b * c * i + 2 * b * e * l
                + a * a * j + 2 * a * d * i + 2 * a * f * l + (-2) * c * h * l
                + (-2) * d * g * l + (-1) * d * d * j + 2 * c * d * k + c * c * j,
              (-2) * a * c * i + (-2) * a * e * l + a * a * k + 2 * a * b * j
                + (-1) * c * c * k + 2 * c * d * j + 2 * c * g * l + (-2) * d * h * l
                + 2 * b * f * l + (-1) * b * b * k + 2 * b * d * i + d * d * k,
              a * a * l + b * b * l + c * c * l + d * d * l)

PointFromUnsigned(value) == Point(value.z, value.y, value.x, 1)

\* impl From<Vector3> for Point
PointFrom(value) == Point(value.z, -value.y, value.x, 1)

\* impl From<Point> for Vector3; the model divides exactly or not at all
Vector3From(value) ==
    Vector3(value.e023 \div value.e123,
            (-value.e013) \div value.e123,
            value.e012 \div value.e123)

\* Add for Vector3
VectorAdd(u, v) == Vector3(u.x + v.x, u.y + v.y, u.z + v.z)

\* The local poses the scene authors write: a translation by (2, 0, 0) and a
\* half turn in the xy plane.  They do not commute.
PoseSet == {translation(Vector3(2, 0, 0)), rotation_xy_pi}

\* Sphere.radius and Material.color of the startup scene (colors in tenths)
RadiusSet == {1, 100}
ColorSet == {Vector3(8, 8, 8), Vector3(1, 8, 2)}

\* Camera: the fields of the component and the sun_direction update_camera
\* reads from it (min_distance in thousandths)
Camera(v_fov, sun_direction) ==
    [v_fov |-> v_fov, min_distance |-> 1, max_distance |-> 100,
     max_bounces |-> 8, sun_direction |-> sun_direction]

CameraSet == {Camera(90, Vector3(0, 1, 0)), Camera(60, Vector3(1, 0, 0))}

\* the value a component that is not there is normalised to
NoRadius == 0
NoColor == Vector3(0, 0, 0)
NoCamera == Camera(0, Vector3(0, 0, 0))

\* ------------------------------------------------------- GPU-side layouts
\* encase: GpuSphere is a Motor (8 f32), a vec3<f32> aligned to 16 and an f32;
\* GpuSpheres is the array length followed by the array, aligned to its element
SphereStride == 48
SpheresHeader == 16

\* GpuSpheres::size(): a runtime-sized array takes the room of one element at least
PackedLen(count) == SpheresHeader + SphereStride * (IF count > 1 THEN count ELSE 1)

\* GpuSpheres::min_size()
MinSize == PackedLen(0)

GpuSphere(transform_, color_, radius_) ==
    [transform |-> transform_, color |-> color_, radius |-> radius_]

\* StorageBuffer::write of GpuSpheres { length: ArrayLength, data }
GpuSpheres(data) == [length |-> Len(data), data |-> data]

\* UniformBuffer::write of a GpuCamera
GpuCamera(motor, cam) ==
    [transform |-> motor, v_fov |-> cam.v_fov, min_distance |-> cam.min_distance,
     max_distance |-> cam.max_distance, sun_direction |-> cam.sun_direction]

\* a buffer the device has just created reads as zeroes
ZeroedSpheres == GpuSpheres(<<>>)
ZeroedCamera == GpuCamera(Motor(0, 0, 0, 0, 0, 0, 0, 0), NoCamera)

\* ------------------------------------------------------------------- state
VARIABLES
    hasTransform,    \* node -> whether it owns a Transform (Local Pose)
    transform,       \* node -> Transform.motor
    parent,          \* node -> Parent.get(), NoParent when it has no Parent component
    hasGlobal,       \* node -> whether it owns a GlobalTransform (World Pose)
    global,          \* node -> GlobalTransform.transform().motor
    tChanged,        \* node -> Transform.is_changed() as update_global_transforms sees it
    pChanged,        \* node -> Parent.is_changed() as update_global_transforms sees it
    removedParents,  \* RemovedComponents<Parent> events update_removed_parents has not read
    written,         \* nodes whose GlobalTransform the step just taken, a pass, wrote
    attached,        \* nodes the last propagation pass's commands gave a GlobalTransform
    orphaned,        \* the Parent removals the step just taken, a pass, read
    ran,             \* update_global_transforms of PostUpdate has run at least once
    sinceTick,       \* scene edits since the last propagation pass
    panicked,        \* a system panicked: the process is gone
    gChangedS,       \* node -> GlobalTransform.is_changed() as update_spheres sees it
    gChangedC,       \* node -> GlobalTransform.is_changed() as update_camera sees it
    hasSphere,       \* node -> whether it owns a Sphere
    radius,          \* node -> Sphere.radius
    sChanged,        \* node -> Sphere.is_changed() as update_spheres sees it
    hasMaterial,     \* node -> whether it owns a Material
    color,           \* node -> Material.color
    mChanged,        \* node -> Material.is_changed() as update_spheres sees it
    hasCamera,       \* node -> whether it owns a Camera
    camera,          \* node -> the Camera component
    cChanged,        \* node -> Camera.is_changed() as update_camera sees it
    mainCamera,      \* node -> whether it owns the MainCamera marker
    mcChanged,       \* node -> MainCamera.is_changed() as update_camera sees it
    spheres,         \* SphereState.spheres
    sphere_buffer,   \* SphereState.sphere_buffer: [id, size, data]
    sphere_bind_group, \* SphereState.sphere_bind_group: the id of the buffer it binds
    sphereUpload,    \* what update_spheres did, if it ran after the last edit
    camera_uniform_buffer, \* content of RenderState.camera_uniform_buffer
    cameraUpload,    \* what update_camera did, if it ran after the last edit
    sinceUpload,     \* scene edits since the last upload
    renders,         \* runs of the RenderSchedule
    cameraWrites,    \* write_buffer calls on the camera buffer over all render ticks
    sphereWrites,    \* write_buffer calls on the sphere buffer over all render ticks
    window_inner,    \* what Window::inner_size() returns
    window_size,     \* the WindowSize resource
    surface_config,  \* RenderState.surface_config: width and height
    surface,         \* the extent RenderState.surface was last configured with
    main_texture,    \* RenderState.main_texture: width and height
    main_texture_bind_group, \* extent of the texture whose view group 0 binds
    rendering,       \* render is inside its loop, about to call get_current_texture()
    acquisition,     \* what the last get_current_texture() of this run returned
    frame,           \* the operations of this run of the RenderSchedule, in order
    grid,            \* the u32 width and height dispatch_workgroups counts for, and its counts
    copy,            \* source, target and extent of copy_texture_to_texture
    call,            \* the operands of the math library and the law last evaluated on them
    walk             \* node -> where the closure of update_global_transforms stands for it

\* what a propagation pass reads, and the records of the last pass
passVars == <<hasTransform, transform, parent, hasGlobal, global, tChanged, pChanged,
              removedParents, attached, ran, sinceTick>>

hierVars == <<passVars, written, orphaned>>

sphereVars == <<hasSphere, radius, sChanged, hasMaterial, color, mChanged>>

cameraVars == <<hasCamera, camera, cChanged, mainCamera, mcChanged>>

sphereStateVars == <<gChangedS, spheres, sphere_buffer, sphere_bind_group, sphereUpload>>

cameraStateVars == <<gChangedC, camera_uniform_buffer, cameraUpload>>

tickVars == <<renders, cameraWrites, sphereWrites>>

\* the window as the operating system and the runner keep it
windowVars == <<window_inner, window_size>>

\* what resize and configure write
surfaceVars == <<surface_config, surface, main_texture, main_texture_bind_group>>

\* where render stands, and the record of the current run of the RenderSchedule
frameVars == <<rendering, acquisition, frame, grid, copy>>

renderVars == <<windowVars, surfaceVars, frameVars>>

\* the library calls and the closures of a pass in progress
stepVars == <<call, walk>>

vars == <<hierVars, panicked, sphereVars, cameraVars, sphereStateVars,
          cameraStateVars, sinceUpload, tickVars, renderVars, stepVars>>

AllFalse == [n \in Nodes |-> FALSE]

\* The operands a library law is evaluated on: three motors, two vectors and
\* a point; law names the law last evaluated, left and right its two sides.
Operands(a, b, c, u, v, p) ==
    [law |-> "none", a |-> a, b |-> b, c |-> c, u |-> u, v |-> v, p |-> p,
     left |-> <<>>, right |-> <<>>]

\* no library call under observation
NoCall ==
    Operands(IDENTITY, IDENTITY, IDENTITY, Vector3(0, 0, 0), Vector3(0, 0, 0),
             Point(0, 0, 0, 1))

\* the closure of update_global_transforms for one entity: not entered
Idle ==
    [pc |-> "idle", current_parent |-> NoParent, transform |-> IDENTITY,
     transform_changed |-> FALSE]

\* update_global_transforms is not running
NoWalk == [n \in Nodes |-> Idle]

\* no upload has run since the scene was last edited
NoSphereUpload ==
    [ran |-> FALSE, changed |-> FALSE, wrote |-> FALSE, created |-> 0, bound |-> 0]
NoCameraUpload ==
    [ran |-> FALSE, pose |-> FALSE, camera |-> FALSE, marker |-> FALSE, wrote |-> FALSE]

\* --------------------------------------------------------------- hierarchy
\* n lies on the parent chain that starts at c (c itself included)
RECURSIVE OnChain(_, _)
OnChain(n, c) ==
    \/ n = c
    \/ parent[c] # NoParent /\ OnChain(n, parent[c])

\* transforms.get(entity).unwrap() succeeds for c and for every ancestor of c
RECURSIVE ChainUnwraps(_)
ChainUnwraps(c) ==
    /\ hasTransform[c]
    /\ parent[c] = NoParent \/ ChainUnwraps(parent[c])

MarkRemovedNoop(tc) == tc

\* update_removed_parents: every unread Parent removal touches the Transform of
\* the entity it names, when that entity has one (DerefMut sets the change tick)
MarkRemoved(tc) ==
    [n \in Nodes |-> tc[n] \/ (n \in removedParents /\ hasTransform[n])]

\* current_parent.map_or(false, |parent| parent.is_changed())
LinkChanged(n) == parent[n] # NoParent /\ pChanged[n]

\* current_transform.is_changed() || (the Parent of the same entity).is_changed()
StepChanged(n, tc) == tc[n] \/ LinkChanged(n)

\* the while-let loop: c is the entity current_parent names, m the accumulated
\* motor, ch the accumulated transform_changed; tr holds the Transform motors
\* and tc their change flags
RECURSIVE WalkFrom(_, _, _, _, _)
WalkFrom(c, m, ch, tr, tc) ==
    IF c = NoParent
    THEN [motor |-> m, changed |-> ch]
    ELSE WalkFrom(parent[c], pre_apply(m, tr[c]), ch \/ StepChanged(c, tc), tr, tc)

\* the closure body up to the final test, for one entity of the query
Walk(n, tr, tc) == WalkFrom(parent[n], tr[n], StepChanged(n, tc), tr, tc)

ShouldWriteAlways(changed) == TRUE

\* if transform_changed { *global_transform = ... }
ShouldWrite(changed) == changed

\* --------------------------------------------------------- surface manager
\* a width and a height in pixels
Extent(width, height) == [width |-> width, height |-> height]

\* The inner sizes a window takes: sides of 0 when it is minimised, and sides
\* on either side of a multiple of the workgroup size.
SizeSet == {Extent(0, 0), Extent(16, 17), Extent(17, 0)}

\* the inner size of the window when RenderState::from_world reads it
StartupInnerSize == Extent(16, 17)

ClampNone(x) == x

\* u32::max(1)
Clamp(x) == IF x > 1 THEN x ELSE 1

TextureExtentUnit(config) == Extent(1, 1)

\* the Extent3d of the TextureDescriptor: width and height of the configuration
TextureExtent(config) == Extent(config.width, config.height)

\* create_view(&TextureViewDescriptor::default()): the whole texture
ViewOf(texture) == texture

\* RenderState::resize(width, height), as the fields it assigns and the
\* configuration it hands to the surface
Resize(width, height) ==
    LET config  == Extent(Clamp(width), Clamp(height))
        texture == TextureExtent(config)
    IN  [surface_config          |-> config,
         surface                 |-> config,
         main_texture            |-> texture,
         main_texture_bind_group |-> ViewOf(texture)]

\* A u32 is hi * Half + lo with both halves below Half, so that sums up to
\* 2^32 are computed without leaving the integers the checker has.
Half == 2^16
U32(hi, lo) == [hi |-> hi, lo |-> lo]

\* the u32 of a number below 2^31
ToU32(n) == U32(n \div Half, n % Half)

\* a + n overflows u32, for n below Half
AddOverflows(a, n) == a.hi + (a.lo + n) \div Half >= Half

\* a + n in u32, wrapping, for n below Half
WrappingAdd(a, n) == U32((a.hi + (a.lo + n) \div Half) % Half, (a.lo + n) % Half)

\* a / d in u32, for d a divisor of Half
DivU32(a, d) == a.hi * (Half \div d) + a.lo \div d

\* the side of a workgroup, in pixels
WorkgroupSize == 16

\* (extent + (16 - 1)) / 16, where the sum does not overflow or wraps
DispatchCount(extent) ==
    DivU32(WrappingAdd(extent, WorkgroupSize - 1), WorkgroupSize)

\* the three arguments of dispatch_workgroups for a texture of the given u32
\* width and height
Workgroups(of) == <<DispatchCount(of.width), DispatchCount(of.height), 1>>

\* the sum of one of the two counts overflows u32
CountOverflows(of) ==
    \/ AddOverflows(of.width, WorkgroupSize - 1)
    \/ AddOverflows(of.height, WorkgroupSize - 1)

\* the results of Surface::get_current_texture()
Results == {"Ok", "Timeout", "Outdated", "Lost", "OutOfMemory"}

\* no frame encoded in this run of the RenderSchedule
NoExtent == Extent(0, 0)
NoCounts == <<0, 0, 0>>
NoGrid == [of |-> Extent(U32(0, 0), U32(0, 0)), counts |-> NoCounts]
NoCopy == [source |-> NoExtent, target |-> NoExtent, extent |-> NoExtent]

FrameOpsPresentFirst ==
    <<"create_command_encoder", "begin_compute_pass", "set_pipeline",
      "set_bind_group 0", "set_bind_group 1", "set_bind_group 2",
      "dispatch_workgroups", "end_pass", "copy_texture_to_texture",
      "pre_present_notify", "present", "submit">>

\* what render does with the image it acquired, in program order
FrameOps ==
    <<"create_command_encoder", "begin_compute_pass", "set_pipeline",
      "set_bind_group 0", "set_bind_group 1", "set_bind_group 2",
      "dispatch_workgroups", "end_pass", "copy_texture_to_texture",
      "submit", "pre_present_notify", "present">>

\* ------------------------------------------------------------------- Init
\* No sphere, no camera, and the renderer's resources as FromWorld builds them.
NoScene ==
    /\ hasSphere = AllFalse /\ radius = [n \in Nodes |-> NoRadius] /\ sChanged = AllFalse
    /\ hasMaterial = AllFalse /\ color = [n \in Nodes |-> NoColor] /\ mChanged = AllFalse
    /\ hasCamera = AllFalse /\ camera = [n \in Nodes |-> NoCamera] /\ cChanged = AllFalse
    /\ mainCamera = AllFalse /\ mcChanged = AllFalse

InitBuffers ==
    /\ spheres = <<>>
    /\ sphere_buffer = [id |-> 0, size |-> MinSize, data |-> ZeroedSpheres]
    /\ sphere_bind_group = 0
    /\ sphereUpload = NoSphereUpload
    /\ camera_uniform_buffer = ZeroedCamera
    /\ cameraUpload = NoCameraUpload
    /\ sinceUpload = 0
    /\ renders = 0 /\ cameraWrites = 0 /\ sphereWrites = 0

\* WindowSize::default(), and RenderState::from_world on a window of the given
\* inner size
InitSurface(size) ==
    /\ window_inner = size
    /\ window_size = Extent(1, 1)
    /\ surface_config = Extent(Clamp(size.width), Clamp(size.height))
    /\ surface = surface_config
    /\ main_texture = TextureExtent(surface_config)
    /\ main_texture_bind_group = ViewOf(main_texture)

\* no run of the RenderSchedule yet
InitFrame ==
    /\ rendering = FALSE
    /\ acquisition = "None"
    /\ frame = <<>>
    /\ copy = NoCopy

\* nothing of the library under observation, no pass in progress
InitIdle == call = NoCall /\ walk = NoWalk

InitRenderer ==
    /\ InitBuffers /\ InitSurface(StartupInnerSize) /\ InitFrame /\ grid = NoGrid
    /\ InitIdle

\* The hierarchy when the Update schedule of the first app.update() starts:
\* Startup has spawned the nodes and the PostStartup pass, which finds no
\* GlobalTransform to update, has attached one (a copy of the Transform) to
\* every node with a Transform.  No PostUpdate system and no render system has
\* run yet, so each of them sees every component as changed.
InitNodes ==
    /\ hasTransform \in [Nodes -> BOOLEAN]
    /\ transform \in [Nodes -> PoseSet \cup {IDENTITY}]
    /\ \A n \in Nodes : (transform[n] = IDENTITY) <=> ~hasTransform[n]
    /\ parent = [n \in Nodes |-> NoParent]
    /\ hasGlobal = hasTransform
    /\ global = transform
    /\ tChanged = hasTransform
    /\ pChanged = AllFalse
    /\ removedParents = {}
    /\ written = {}
    /\ attached = {n \in Nodes : hasTransform[n]}
    /\ orphaned = {}
    /\ ran = FALSE
    /\ sinceTick = 0
    /\ panicked = FALSE
    /\ gChangedS = hasTransform
    /\ gChangedC = hasTransform

Init == InitNodes /\ NoScene /\ InitRenderer

\* ------------------------------------------------------------ scene edits
\* Every edit of the hierarchy counts towards MaxOps, and ends the record of
\* what the last pass wrote and read.
Edit ==
    /\ ~panicked
    /\ sinceTick < MaxOps
    /\ sinceTick' = sinceTick + 1
    /\ written' = {}
    /\ orphaned' = {}
    /\ UNCHANGED <<attached, ran, panicked, gChangedS, gChangedC, sphereVars,
                   cameraVars, spheres, sphere_buffer, sphere_bind_group,
                   sphereUpload, camera_uniform_buffer, cameraUpload, sinceUpload,
                   tickVars, renderVars, stepVars>>

\* a system writes through Mut<Transform>
WriteLocal(n, m) ==
    /\ Edit
    /\ hasTransform[n]
    /\ transform' = [transform EXCEPT ![n] = m]
    /\ tChanged' = [tChanged EXCEPT ![n] = TRUE]
    /\ UNCHANGED <<hasTransform, parent, hasGlobal, global, pChanged, removedParents>>

\* set_parent: inserts the Parent component or re-targets the one there is.
\* Scenes are well formed: a parent owns a Transform and was spawned before its
\* child (a smaller id), which keeps the hierarchy acyclic.
SetParent(n, p) ==
    /\ Edit
    /\ hasTransform[p]
    /\ parent[n] # p
    /\ p < n
    /\ parent' = [parent EXCEPT ![n] = p]
    /\ pChanged' = [pChanged EXCEPT ![n] = TRUE]
    /\ UNCHANGED <<hasTransform, transform, hasGlobal, global, tChanged, removedParents>>

\* remove_parent: removes the Parent component, which records a removal event
RemoveParent(n) ==
    /\ Edit
    /\ parent[n] # NoParent
    /\ parent' = [parent EXCEPT ![n] = NoParent]
    /\ pChanged' = [pChanged EXCEPT ![n] = FALSE]
    /\ removedParents' = removedParents \cup {n}
    /\ UNCHANGED <<hasTransform, transform, hasGlobal, global, tChanged>>

\* a node gains a Transform
InsertTransform(n, m) ==
    /\ Edit
    /\ ~hasTransform[n]
    /\ hasTransform' = [hasTransform EXCEPT ![n] = TRUE]
    /\ transform' = [transform EXCEPT ![n] = m]
    /\ tChanged' = [tChanged EXCEPT ![n] = TRUE]
    /\ UNCHANGED <<parent, hasGlobal, global, pChanged, removedParents>>

\* a node loses its Transform
RemoveTransform(n) ==
    /\ Edit
    /\ hasTransform[n]
    /\ hasTransform' = [hasTransform EXCEPT ![n] = FALSE]
    /\ transform' = [transform EXCEPT ![n] = IDENTITY]
    /\ tChanged' = [tChanged EXCEPT ![n] = FALSE]
    /\ UNCHANGED <<parent, hasGlobal, global, pChanged, removedParents>>

\* -------------------------------------------------------- propagation pass
\* One run of the PostUpdate chain (add_global_transforms,
\* remove_global_transforms, update_removed_parents), update_global_transforms,
\* and the application of the queued commands when the schedule ends.  tr and
\* tc are the Transform motors and their change flags as the Update schedule
\* of the same app.update() left them.
Pass(tr, tc0) ==
    /\ ~panicked
    /\ ~rendering
    /\ LET toAdd    == {n \in Nodes : hasTransform[n] /\ ~hasGlobal[n]}
           toRemove == {n \in Nodes : hasGlobal[n] /\ ~hasTransform[n]}
           tc       == MarkRemoved(tc0)
           query    == {n \in Nodes : hasGlobal[n]}
       IN  IF \E n \in query : ~ChainUnwraps(n)
           THEN \* unwrap() of a failed transforms.get(): the pass panics before
                \* the queued commands are applied
                /\ panicked' = TRUE
                /\ UNCHANGED <<hierVars, gChangedS, gChangedC>>
           ELSE LET wr == {n \in query : ShouldWrite(Walk(n, tr, tc).changed)}
                    touched == [n \in Nodes |-> (n \in wr \/ n \in toAdd) /\ n \notin toRemove]
                IN  /\ global' = [n \in Nodes |->
                                    IF n \in wr THEN Walk(n, tr, tc).motor
                                    ELSE IF n \in toAdd THEN tr[n]
                                    ELSE global[n]]
                    /\ hasGlobal' = [n \in Nodes |->
                                       (hasGlobal[n] \/ n \in toAdd) /\ n \notin toRemove]
                    /\ gChangedS' = [n \in Nodes |->
                                       (gChangedS[n] \/ touched[n]) /\ n \notin toRemove]
                    /\ gChangedC' = [n \in Nodes |->
                                       (gChangedC[n] \/ touched[n]) /\ n \notin toRemove]
                    /\ transform' = tr
                    /\ written' = wr
                    /\ attached' = toAdd
                    /\ orphaned' = {n \in removedParents : hasTransform[n]}
                    /\ tChanged' = AllFalse
                    /\ pChanged' = AllFalse
                    /\ removedParents' = {}
                    /\ ran' = TRUE
                    /\ sinceTick' = 0
                    /\ UNCHANGED <<hasTransform, parent, panicked>>

\* app.update() with no Update system writing to the scene
PostUpdate ==
    /\ Pass(transform, tChanged)
    /\ UNCHANGED <<sphereVars, cameraVars, spheres, sphere_buffer, sphere_bind_group,
                   sphereUpload, camera_uniform_buffer, cameraUpload, sinceUpload,
                   tickVars, renderVars, stepVars>>

\* ------------------------------------------------- edits of a running scene
\* Every edit made between two uploads counts towards the bound, and ends the
\* record of what the last upload did.
RenderEdit(bound) ==
    /\ ~panicked
    /\ sinceUpload < bound
    /\ sinceUpload' = sinceUpload + 1
    /\ sphereUpload' = NoSphereUpload
    /\ cameraUpload' = NoCameraUpload
    /\ UNCHANGED <<spheres, sphere_buffer, sphere_bind_group,
                   camera_uniform_buffer, tickVars, renderVars, stepVars>>

\* an edit of a component the propagation pass does not read
SceneEdit(bound) ==
    /\ RenderEdit(bound)
    /\ written' = {}
    /\ orphaned' = {}
    /\ UNCHANGED <<passVars, panicked, gChangedS, gChangedC>>

\* app.update() in which an Update system (spiral_spheres, say) writes the
\* Transform of n before the PostUpdate pass runs
UpdateWriting(n, m, bound) ==
    /\ RenderEdit(bound)
    /\ hasTransform[n]
    /\ Pass([transform EXCEPT ![n] = m], [tChanged EXCEPT ![n] = TRUE])
    /\ UNCHANGED <<sphereVars, cameraVars>>

\* a node with a World Pose gains a Sphere and a Material
InsertSphere(n, r, c) ==
    /\ SceneEdit(MaxEdits)
    /\ hasGlobal[n] /\ ~hasSphere[n]
    /\ hasSphere' = [hasSphere EXCEPT ![n] = TRUE]
    /\ radius' = [radius EXCEPT ![n] = r]
    /\ sChanged' = [sChanged EXCEPT ![n] = TRUE]
    /\ hasMaterial' = [hasMaterial EXCEPT ![n] = TRUE]
    /\ color' = [color EXCEPT ![n] = c]
    /\ mChanged' = [mChanged EXCEPT ![n] = TRUE]
    /\ UNCHANGED cameraVars

\* a node loses its Sphere and its Material
RemoveSphere(n) ==
    /\ SceneEdit(MaxEdits)
    /\ hasSphere[n]
    /\ hasSphere' = [hasSphere EXCEPT ![n] = FALSE]
    /\ radius' = [radius EXCEPT ![n] = NoRadius]
    /\ sChanged' = [sChanged EXCEPT ![n] = FALSE]
    /\ hasMaterial' = [hasMaterial EXCEPT ![n] = FALSE]
    /\ color' = [color EXCEPT ![n] = NoColor]
    /\ mChanged' = [mChanged EXCEPT ![n] = FALSE]
    /\ UNCHANGED cameraVars

\* a system writes through Mut<Sphere>
WriteSphere(n, r) ==
    /\ SceneEdit(MaxEdits)
    /\ hasSphere[n]
    /\ radius' = [radius EXCEPT ![n] = r]
    /\ sChanged' = [sChanged EXCEPT ![n] = TRUE]
    /\ UNCHANGED <<hasSphere, hasMaterial, color, mChanged, cameraVars>>

\* a system writes through Mut<Material>
WriteMaterial(n, c) ==
    /\ SceneEdit(MaxEdits)
    /\ hasMaterial[n]
    /\ color' = [color EXCEPT ![n] = c]
    /\ mChanged' = [mChanged EXCEPT ![n] = TRUE]
    /\ UNCHANGED <<hasSphere, radius, sChanged, hasMaterial, cameraVars>>

\* a system writes through Mut<Camera>
WriteCamera(n, v) ==
    /\ SceneEdit(MaxCameraEdits)
    /\ hasCamera[n]
    /\ camera' = [camera EXCEPT ![n] = v]
    /\ cChanged' = [cChanged EXCEPT ![n] = TRUE]
    /\ UNCHANGED <<hasCamera, mainCamera, mcChanged, sphereVars>>

\* insert(MainCamera): adds the marker, or replaces the one there is
InsertMainCamera(n) ==
    /\ SceneEdit(MaxCameraEdits)
    /\ hasCamera[n]
    /\ mainCamera' = [mainCamera EXCEPT ![n] = TRUE]
    /\ mcChanged' = [mcChanged EXCEPT ![n] = TRUE]
    /\ UNCHANGED <<hasCamera, camera, cChanged, sphereVars>>

\* remove::<MainCamera>()
RemoveMainCamera(n) ==
    /\ SceneEdit(MaxCameraEdits)
    /\ mainCamera[n]
    /\ mainCamera' = [mainCamera EXCEPT ![n] = FALSE]
    /\ mcChanged' = [mcChanged EXCEPT ![n] = FALSE]
    /\ UNCHANGED <<hasCamera, camera, cChanged, sphereVars>>

\* ----------------------------------------------------------- sphere upload
\* Query<(Ref<GlobalTransform>, Ref<Material>, Ref<Sphere>)>
SphereQuery == {n \in Nodes : hasGlobal[n] /\ hasMaterial[n] /\ hasSphere[n]}

\* what for_each pushes for the entities of S, visited in the order of their ids
RECURSIVE Rows(_)
Rows(S) ==
    IF S = {}
    THEN <<>>
    ELSE LET n == CHOOSE k \in S : \A j \in S : k <= j
         IN  <<GpuSphere(global[n], color[n], radius[n])>> \o Rows(S \ {n})

TripleChangedAlways(n) == TRUE

\* transform.is_changed() || material.is_changed() || sphere.is_changed()
TripleChanged(n) == gChangedS[n] \/ mChanged[n] \/ sChanged[n]

\* components_changed when for_each returns
ComponentsChanged == \E n \in SphereQuery : TripleChanged(n)

NeedsUploadIgnoringCount(changed, count, previous) == changed

\* components_changed || sphere_state.spheres.len() != previous_sphere_count
NeedsUpload(changed, count, previous) == changed \/ count # previous

\* sphere_state.buffer.len() > sphere_state.sphere_buffer.size()
NeedsGrow(len, size) == len > size

BoundBufferStale(new, old) == old

\* the buffer the new bind group's entry names
BoundBuffer(new, old) == new

\* update_spheres, on the state it touches
UpdateSpheres ==
    LET previous_sphere_count == Len(spheres)
        data  == Rows(SphereQuery)
        write == NeedsUpload(ComponentsChanged, Len(data), previous_sphere_count)
        len   == PackedLen(Len(data))
        grow  == write /\ NeedsGrow(len, sphere_buffer.size)
        buf   == IF grow
                 THEN [id |-> sphere_buffer.id + 1, size |-> len, data |-> ZeroedSpheres]
                 ELSE sphere_buffer
    IN  /\ spheres' = data
        /\ sphere_buffer' = IF write THEN [buf EXCEPT !.data = GpuSpheres(data)] ELSE buf
        /\ sphere_bind_group' =
               IF grow THEN BoundBuffer(buf.id, sphere_buffer.id) ELSE sphere_bind_group
        /\ sphereUpload' = [ran     |-> TRUE,
                            changed |-> ComponentsChanged,
                            wrote   |-> write,
                            created |-> IF grow THEN 1 ELSE 0,
                            bound   |-> IF grow THEN 1 ELSE 0]
        /\ gChangedS' = AllFalse
        /\ mChanged' = AllFalse
        /\ sChanged' = AllFalse

\* ----------------------------------------------------------- camera upload
\* Query<(Ref<GlobalTransform>, Ref<Camera>, Ref<MainCamera>)>
CameraQuery == {n \in Nodes : hasGlobal[n] /\ hasCamera[n] /\ mainCamera[n]}

SingleOrFirst(count) == count >= 1

\* Query::single(): the query matches exactly one entity
Single(count) == count = 1

CameraChangedNoMarker(n) == gChangedC[n] \/ cChanged[n]

\* global_transform.is_changed() || camera.is_changed() || main_camera.is_changed()
CameraChanged(n) == gChangedC[n] \/ cChanged[n] \/ mcChanged[n]

\* update_camera, on the state it touches
UpdateCamera ==
    IF ~Single(Cardinality(CameraQuery))
    THEN \* camera.single() panics
         /\ panicked' = TRUE
         /\ UNCHANGED <<camera_uniform_buffer, cameraUpload, gChangedC, cChanged, mcChanged>>
    ELSE LET n == CHOOSE k \in CameraQuery : TRUE
             write == CameraChanged(n)
         IN  /\ camera_uniform_buffer' =
                    IF write THEN GpuCamera(global[n], camera[n]) ELSE camera_uniform_buffer
             /\ cameraUpload' = [ran |-> TRUE, pose |-> gChangedC[n], camera |-> cChanged[n],
                                 marker |-> mcChanged[n], wrote |-> write]
             /\ gChangedC' = AllFalse
             /\ cChanged' = AllFalse
             /\ mcChanged' = AllFalse
             /\ UNCHANGED panicked

\* ------------------------------------------------------------ render ticks
\* update_spheres run on its own
RunUpdateSpheres ==
    /\ ~panicked
    /\ UpdateSpheres
    /\ sinceUpload' = 0
    /\ written' = {}
    /\ orphaned' = {}
    /\ UNCHANGED <<passVars, panicked, hasSphere, radius, hasMaterial, color,
                   cameraVars, cameraStateVars, tickVars, renderVars, stepVars>>

\* update_camera run on its own
RunUpdateCamera ==
    /\ ~panicked
    /\ UpdateCamera
    /\ sinceUpload' = 0
    /\ written' = {}
    /\ orphaned' = {}
    /\ UNCHANGED <<passVars, hasCamera, camera, mainCamera, sphereVars,
                   sphereStateVars, tickVars, renderVars, stepVars>>

\* The two upload systems of the RenderSchedule, which the schedule orders
\* before render and not among themselves
UploadOrders ==
    {<<"update_camera", "update_spheres">>, <<"update_spheres", "update_camera">>}

\* try_run_schedule(RenderSchedule) up to the entry of render's loop:
\* update_camera and update_spheres in either order, then render, which
\* reads the buffers and the sphere bind group and writes neither, about to
\* ask the surface for its current texture.
RenderSchedule ==
    /\ ~panicked
    /\ ~rendering
    /\ renders < MaxFrames
    /\ UpdateCamera
    /\ UpdateSpheres
    /\ renders' = renders + 1
    /\ cameraWrites' = cameraWrites + (IF ~panicked' /\ cameraUpload'.wrote THEN 1 ELSE 0)
    /\ sphereWrites' = sphereWrites + (IF sphereUpload'.wrote THEN 1 ELSE 0)
    /\ sinceUpload' = 0
    /\ written' = {}
    /\ orphaned' = {}
    /\ rendering' = ~panicked'
    /\ acquisition' = "None"
    /\ \E order \in UploadOrders : frame' = order
    /\ grid' = NoGrid
    /\ copy' = NoCopy
    /\ UNCHANGED <<passVars, hasSphere, radius, hasMaterial, color,
                   hasCamera, camera, mainCamera, windowVars, surfaceVars, stepVars>>

\* RedrawRequested as the runner asks for it after app.update()
RenderTick ==
    /\ ran
    /\ RenderSchedule

StoredSize(inner, stored) == stored

\* let size = render_state.window.inner_size(): what the window reports now,
\* not what the runner stored in WindowSize
InnerSize(inner, stored) == inner

ReconfigureForWindow(config, inner) == Extent(Clamp(inner.width), Clamp(inner.height))

\* surface.configure(&device, &surface_config) of the Lost arm: the
\* configuration the surface is given is the one RenderState holds
Reconfigure(config, inner) == config

BreaksOnTimeoutToo(r) == r \in {"Ok", "Timeout"}

\* Ok(output) => break output: the only arm that leaves the loop with an image
Breaks(r) == r = "Ok"

\* One turn of render's loop: get_current_texture() returns r.  Ok leaves the
\* loop and the frame is encoded, submitted and presented; Timeout returns;
\* Outdated resizes to the window's inner size and Lost reconfigures, and
\* both stay in the loop; OutOfMemory panics.
Acquire(r) ==
    /\ ~panicked
    /\ rendering
    /\ acquisition' = r
    /\ CASE Breaks(r) ->
              /\ rendering' = FALSE
              /\ frame' = frame \o FrameOps
              /\ LET of == Extent(ToU32(main_texture.width), ToU32(main_texture.height))
                 IN  grid' = [of |-> of, counts |-> Workgroups(of)]
              /\ copy' = [source |-> main_texture, target |-> surface,
                          extent |-> surface_config]
              /\ UNCHANGED <<surfaceVars, panicked>>
         [] r = "Timeout" ->
              /\ rendering' = FALSE
              /\ UNCHANGED <<frame, grid, copy, surfaceVars, panicked>>
         [] r = "Outdated" ->
              LET size    == InnerSize(window_inner, window_size)
                  resized == Resize(size.width, size.height)
              IN  /\ surface_config' = resized.surface_config
                  /\ surface' = resized.surface
                  /\ main_texture' = resized.main_texture
                  /\ main_texture_bind_group' = resized.main_texture_bind_group
                  /\ UNCHANGED <<rendering, frame, grid, copy, panicked>>
         [] r = "Lost" ->
              /\ surface' = Reconfigure(surface_config, window_inner)
              /\ UNCHANGED <<surface_config, main_texture, main_texture_bind_group,
                             rendering, frame, grid, copy, panicked>>
         [] r = "OutOfMemory" ->
              /\ panicked' = TRUE
              /\ rendering' = FALSE
              /\ UNCHANGED <<frame, grid, copy, surfaceVars>>
    /\ UNCHANGED <<hierVars, sphereVars, cameraVars, sphereStateVars, cameraStateVars,
                   sinceUpload, tickVars, windowVars, stepVars>>

\* ---------------------------------------------------------- specifications
\* The transform plugin under every scene edit.
Next ==
    \/ \E n \in Nodes, m \in PoseSet : WriteLocal(n, m)
    \/ \E n \in Nodes, p \in Nodes : SetParent(n, p)
    \/ \E n \in Nodes : RemoveParent(n)
    \/ \E n \in Nodes, m \in PoseSet : InsertTransform(n, m)
    \/ \E n \in Nodes : RemoveTransform(n)
    \/ PostUpdate

Spec == Init /\ [][Next]_vars

\* The hierarchy of a scene whose nodes all own a Transform from startup on:
\* local-pose writes, parent-link insertions, re-targetings and removals.
InitHier == Init /\ \A n \in Nodes : hasTransform[n]

NextHier ==
    \/ \E n \in Nodes, m \in PoseSet : WriteLocal(n, m)
    \/ \E n \in Nodes, p \in Nodes : SetParent(n, p)
    \/ \E n \in Nodes : RemoveParent(n)
    \/ PostUpdate

SpecHier == InitHier /\ [][NextHier]_vars

\* A static scene: one main camera and one sphere spawned at startup and never
\* touched again, under update ticks and render ticks.
InitStatic ==
    /\ InitNodes
    /\ InitRenderer
    /\ \E c \in Nodes, s \in Nodes :
        /\ c # s
        /\ hasTransform = [n \in Nodes |-> n \in {c, s}]
        /\ hasCamera = [n \in Nodes |-> n = c]
        /\ mainCamera = hasCamera /\ cChanged = hasCamera /\ mcChanged = hasCamera
        /\ hasSphere = [n \in Nodes |-> n = s]
        /\ hasMaterial = hasSphere /\ sChanged = hasSphere /\ mChanged = hasSphere
    /\ camera \in [Nodes -> CameraSet \cup {NoCamera}]
    /\ \A n \in Nodes : (camera[n] = NoCamera) <=> ~hasCamera[n]
    /\ radius \in [Nodes -> RadiusSet \cup {NoRadius}]
    /\ \A n \in Nodes : (radius[n] = NoRadius) <=> ~hasSphere[n]
    /\ color \in [Nodes -> ColorSet \cup {NoColor}]
    /\ \A n \in Nodes : (color[n] = NoColor) <=> ~hasMaterial[n]

NextStatic ==
    \/ PostUpdate
    \/ RenderTick
    \/ \E r \in Results : Acquire(r)

SpecStatic == InitStatic /\ [][NextStatic]_vars

\* The hierarchy after the first app.update() of a scene of parentless nodes
\* that all own a Transform: the first pass has written every World Pose, and
\* no render system has run yet.
InitRunning ==
    /\ hasTransform = [n \in Nodes |-> TRUE]
    /\ transform = [n \in Nodes |-> translation(Vector3(2, 0, 0))]
    /\ parent = [n \in Nodes |-> NoParent]
    /\ hasGlobal = hasTransform
    /\ global = transform
    /\ tChanged = AllFalse
    /\ pChanged = AllFalse
    /\ removedParents = {}
    /\ written = Nodes
    /\ attached = {}
    /\ orphaned = {}
    /\ ran = TRUE
    /\ sinceTick = 0
    /\ panicked = FALSE
    /\ gChangedS = hasGlobal
    /\ gChangedC = hasGlobal

\* the nodes that carry spheres, and the nodes that carry cameras
SphereNodes == 1..MaxSpheres
CameraNodes == 1..MaxCameras

\* Spheres come and go, move and change while update_spheres runs.
InitSpheres == InitRunning /\ NoScene /\ InitRenderer

NextSpheres ==
    \/ \E n \in SphereNodes, r \in RadiusSet, c \in ColorSet : InsertSphere(n, r, c)
    \/ \E n \in SphereNodes : RemoveSphere(n)
    \/ \E n \in SphereNodes, r \in RadiusSet : WriteSphere(n, r)
    \/ \E n \in SphereNodes, c \in ColorSet : WriteMaterial(n, c)
    \/ \E n \in SphereNodes, m \in PoseSet : hasSphere[n] /\ UpdateWriting(n, m, MaxEdits)
    \/ RunUpdateSpheres

SpecSpheres == InitSpheres /\ [][NextSpheres]_vars

\* Cameras move and change, and the MainCamera marker passes from one to
\* another, while update_camera runs.
InitCamera ==
    /\ InitRunning
    /\ InitRenderer
    /\ hasSphere = AllFalse /\ radius = [n \in Nodes |-> NoRadius] /\ sChanged = AllFalse
    /\ hasMaterial = AllFalse /\ color = [n \in Nodes |-> NoColor] /\ mChanged = AllFalse
    /\ hasCamera = [n \in Nodes |-> n \in CameraNodes]
    /\ \E v \in CameraSet : camera = [n \in Nodes |-> IF hasCamera[n] THEN v ELSE NoCamera]
    /\ cChanged = hasCamera
    /\ \E c \in CameraNodes : mainCamera = [n \in Nodes |-> n = c]
    /\ mcChanged = mainCamera

NextCamera ==
    \/ \E n \in CameraNodes, m \in PoseSet : UpdateWriting(n, m, MaxCameraEdits)
    \/ \E n \in CameraNodes, v \in CameraSet : WriteCamera(n, v)
    \/ \E n \in CameraNodes : InsertMainCamera(n)
    \/ \E n \in CameraNodes : RemoveMainCamera(n)
    \/ RunUpdateCamera

SpecCamera == InitCamera /\ [][NextCamera]_vars

\* The runner on the scene of bin/main.rs.  The world is empty until the
\* first app.update() runs Startup.
CameraNode == 1
GroundNode == 2
SpiralNode == 3
SceneNodes == {CameraNode, GroundNode, SpiralNode}

\* the translations spiral_spheres gives the SpiralMove sphere over time
SpiralSet == {translation(Vector3(0, 2, 0)), translation(Vector3(2, 0, 0))}

InitShell ==
    /\ InitNodes
    /\ hasTransform = AllFalse
    /\ NoScene
    /\ InitBuffers
    /\ \E size \in SizeSet : InitSurface(size)
    /\ InitFrame
    /\ grid = NoGrid
    /\ InitIdle

\* AboutToWait for the first time: app.update() runs Startup, which spawns the
\* camera and the two spheres with a Transform each; PostStartup, whose
\* commands attach a GlobalTransform copied from the Transform; Update, where
\* spiral_spheres places the SpiralMove sphere; and PostUpdate, whose
\* update_global_transforms, on its first run, writes every World Pose.
FirstUpdate(m) ==
    /\ ~panicked
    /\ ~rendering
    /\ ~ran
    /\ hasTransform = AllFalse
    /\ hasTransform' = [n \in Nodes |-> n \in SceneNodes]
    /\ transform' = [n \in Nodes |->
                        IF n = CameraNode THEN translation(Vector3(-4, 0, 0))
                        ELSE IF n = GroundNode THEN translation(Vector3(0, -102, 0))
                        ELSE IF n = SpiralNode THEN m
                        ELSE IDENTITY]
    /\ hasGlobal' = hasTransform'
    /\ global' = transform'
    /\ written' = SceneNodes
    /\ attached' = {}
    /\ orphaned' = {}
    /\ tChanged' = AllFalse
    /\ pChanged' = AllFalse
    /\ ran' = TRUE
    /\ sinceTick' = 0
    /\ gChangedS' = hasGlobal'
    /\ gChangedC' = hasGlobal'
    /\ hasCamera' = [n \in Nodes |-> n = CameraNode]
    /\ camera' = [n \in Nodes |->
                     IF n = CameraNode THEN Camera(90, Vector3(0, 1, 0)) ELSE NoCamera]
    /\ cChanged' = hasCamera'
    /\ mainCamera' = hasCamera'
    /\ mcChanged' = hasCamera'
    /\ hasSphere' = [n \in Nodes |-> n \in {GroundNode, SpiralNode}]
    /\ radius' = [n \in Nodes |->
                     IF n = GroundNode THEN 100 ELSE IF n = SpiralNode THEN 1 ELSE NoRadius]
    /\ sChanged' = hasSphere'
    /\ hasMaterial' = hasSphere'
    /\ color' = [n \in Nodes |->
                    IF n = GroundNode THEN Vector3(8, 8, 8)
                    ELSE IF n = SpiralNode THEN Vector3(1, 8, 2)
                    ELSE NoColor]
    /\ mChanged' = hasSphere'
    /\ UNCHANGED <<parent, removedParents, panicked, spheres, sphere_buffer,
                   sphere_bind_group, sphereUpload, camera_uniform_buffer,
                   cameraUpload, sinceUpload, tickVars, renderVars, stepVars>>

\* AboutToWait from then on: app.update(), in which spiral_spheres moves the
\* SpiralMove sphere before the PostUpdate pass runs
LaterUpdate(m) ==
    /\ ran
    /\ UpdateWriting(SpiralNode, m, MaxEdits)

\* AboutToWait: app.update(); main_window.request_redraw()
AboutToWait ==
    \E m \in SpiralSet : FirstUpdate(m) \/ LaterUpdate(m)

\* RedrawRequested, whether the runner asked for it or the window system did:
\* try_run_schedule(RenderSchedule)
RedrawRequested == RenderSchedule

\* Resized(size): the window has taken the inner size the event names, and
\* the runner stores it, each side at least 1, in WindowSize.  The record of
\* the last run of the RenderSchedule ends here.
Resized(size) ==
    /\ ~panicked
    /\ ~rendering
    /\ window_inner' = size
    /\ window_size' = Extent(Clamp(size.width), Clamp(size.height))
    /\ acquisition' = "None"
    /\ frame' = <<>>
    /\ grid' = NoGrid
    /\ copy' = NoCopy
    /\ UNCHANGED <<hierVars, panicked, sphereVars, cameraVars, sphereStateVars,
                   cameraStateVars, sinceUpload, tickVars, surfaceVars, rendering,
                   stepVars>>

NextShell ==
    \/ AboutToWait
    \/ RedrawRequested
    \/ \E r \in Results : Acquire(r)
    \/ \E size \in SizeSet : Resized(size)

SpecShell == InitShell /\ [][NextShell]_vars

\* render's loop keeps running while it has not returned
SpecShellLive == SpecShell /\ WF_vars(\E r \in Results : Acquire(r))

\* The workgroup counts on their own, for main textures of any u32 width and
\* height: the smallest, those around a multiple of the workgroup size, and
\* those at the upper end of u32.
U32Samples ==
    {U32(0, 1), U32(0, 15), U32(0, 16), U32(0, 17), U32(0, Half - 1), U32(1, 0),
     U32(Half - 1, Half - 16), U32(Half - 1, Half - 15), U32(Half - 1, Half - 1)}

InitGrid ==
    /\ InitNodes
    /\ hasTransform = AllFalse
    /\ NoScene
    /\ InitBuffers
    /\ InitSurface(StartupInnerSize)
    /\ InitFrame
    /\ InitIdle
    /\ \E w \in U32Samples, h \in U32Samples :
           grid = [of |-> Extent(w, h), counts |-> NoCounts]

\* The arguments of dispatch_workgroups are evaluated.  checks is whether the
\* build has overflow checks: with them an overflowing sum panics, without
\* them it wraps.
DispatchWorkgroups(checks) ==
    /\ ~panicked
    /\ grid.counts = NoCounts
    /\ IF checks /\ CountOverflows(grid.of)
       THEN /\ panicked' = TRUE
            /\ UNCHANGED grid
       ELSE /\ grid' = [grid EXCEPT !.counts = Workgroups(grid.of)]
            /\ UNCHANGED panicked
    /\ UNCHANGED <<hierVars, sphereVars, cameraVars, sphereStateVars, cameraStateVars,
                   sinceUpload, tickVars, windowVars, surfaceVars, rendering,
                   acquisition, frame, copy, stepVars>>

NextGrid == \E checks \in BOOLEAN : DispatchWorkgroups(checks)

SpecGrid == InitGrid /\ [][NextGrid]_vars

\* ------------------------------------------- the pass, closure by closure
\* update_global_transforms as par_iter_mut().for_each runs it: one closure
\* per entity of the query, each a walk of its own, their steps interleaved
\* in any order.  The three systems chained before it find nothing to do in
\* the scenes of these specifications: every node has a Transform and a
\* GlobalTransform, and no Parent was removed.

\* the entities of Query<(Entity, &mut GlobalTransform)>
Queried == {n \in Nodes : hasGlobal[n]}

AncestorWorldPose(c) == global[c]

\* current_transform.motor of the entity the walk has reached, read through
\* Query<(Ref<Transform>, Option<Ref<Parent>>)>
AncestorPose(c) == transform[c]

\* what a step of a closure leaves alone besides the hierarchy
WalkFrame ==
    <<sphereVars, cameraVars, spheres, sphere_buffer, sphere_bind_group, sphereUpload,
      camera_uniform_buffer, cameraUpload, sinceUpload, tickVars, renderVars, call>>

\* the closure is entered for entity n: transforms.get(entity).unwrap(), the
\* first transform_changed and the copy of the Transform
Enter(n) ==
    /\ ~panicked
    /\ ~rendering
    /\ n \in Queried
    /\ walk[n].pc = "idle"
    /\ IF ~hasTransform[n]
       THEN /\ panicked' = TRUE
            /\ UNCHANGED <<walk, written>>
       ELSE /\ walk' = [walk EXCEPT ![n] =
                          [pc |-> "loop", current_parent |-> parent[n],
                           transform |-> transform[n],
                           transform_changed |-> StepChanged(n, tChanged)]]
            /\ written' = IF walk = NoWalk THEN {} ELSE written
            /\ UNCHANGED panicked
    /\ UNCHANGED <<passVars, orphaned, gChangedS, gChangedC, WalkFrame>>

\* one turn of the while-let loop of the closure for entity n
Ascend(n) ==
    /\ ~panicked
    /\ walk[n].pc = "loop"
    /\ walk[n].current_parent # NoParent
    /\ LET c == walk[n].current_parent
       IN  IF ~hasTransform[c]
           THEN /\ panicked' = TRUE
                /\ UNCHANGED walk
           ELSE /\ walk' = [walk EXCEPT ![n] =
                              [pc |-> "loop", current_parent |-> parent[c],
                               transform |-> pre_apply(walk[n].transform, AncestorPose(c)),
                               transform_changed |->
                                   walk[n].transform_changed \/ StepChanged(c, tChanged)]]
                /\ UNCHANGED panicked
    /\ UNCHANGED <<passVars, written, orphaned, gChangedS, gChangedC, WalkFrame>>

\* the loop of the closure for entity n has ended: the final test and the
\* write through Mut<GlobalTransform>
Store(n) ==
    /\ ~panicked
    /\ walk[n].pc = "loop"
    /\ walk[n].current_parent = NoParent
    /\ walk' = [walk EXCEPT ![n].pc = "done"]
    /\ IF ShouldWrite(walk[n].transform_changed)
       THEN /\ global' = [global EXCEPT ![n] = walk[n].transform]
            /\ gChangedS' = [gChangedS EXCEPT ![n] = TRUE]
            /\ gChangedC' = [gChangedC EXCEPT ![n] = TRUE]
            /\ written' = written \cup {n}
       ELSE UNCHANGED <<global, gChangedS, gChangedC, written>>
    /\ UNCHANGED <<hasTransform, transform, parent, hasGlobal, tChanged, pChanged,
                   removedParents, attached, ran, sinceTick, orphaned, panicked,
                   WalkFrame>>

\* every closure has returned
AllDone == \A n \in Queried : walk[n].pc = "done"

\* for_each returns and the system with it: what it has seen is no longer
\* changed to it
Return ==
    /\ ~panicked
    /\ ~rendering
    /\ AllDone
    /\ walk' = NoWalk
    /\ tChanged' = AllFalse
    /\ pChanged' = AllFalse
    /\ ran' = TRUE
    /\ sinceTick' = 0
    /\ UNCHANGED <<hasTransform, transform, parent, hasGlobal, global, removedParents,
                   attached, written, orphaned, panicked, gChangedS, gChangedC,
                   WalkFrame>>

NextWalk ==
    \/ \E n \in Nodes : Enter(n)
    \/ \E n \in Nodes : Ascend(n)
    \/ \E n \in Nodes : Store(n)
    \/ Return

\* what the walk specifications share: every node has a Transform and a
\* GlobalTransform, nothing else is in the scene
InitWalk ==
    /\ hasTransform = [n \in Nodes |-> TRUE]
    /\ hasGlobal = hasTransform
    /\ removedParents = {}
    /\ written = {}
    /\ attached = {}
    /\ orphaned = {}
    /\ panicked = FALSE
    /\ NoScene
    /\ InitRenderer

\* A forest in the middle of its life.  Every node was spawned with the
\* translation by (2, 0, 0) under a parent spawned before it, a pass has
\* given every node its World Pose, and since then some nodes were turned
\* by a half turn written to their Transform.
InitForest ==
    /\ InitWalk
    /\ parent \in [Nodes -> Nodes \cup {NoParent}]
    /\ \A n \in Nodes : parent[n] = NoParent \/ parent[n] < n
    /\ tChanged \in [Nodes -> BOOLEAN]
    /\ transform = [n \in Nodes |->
                      IF tChanged[n] THEN rotation_xy_pi
                      ELSE translation(Vector3(2, 0, 0))]
    /\ pChanged = AllFalse
    /\ global = [n \in Nodes |->
                   Walk(n, [k \in Nodes |-> translation(Vector3(2, 0, 0))], AllFalse).motor]
    /\ ran = TRUE
    /\ sinceTick = Cardinality({n \in Nodes : tChanged[n]})
    /\ gChangedS = AllFalse
    /\ gChangedC = AllFalse

SpecForest == InitForest /\ [][NextWalk]_vars

\* Any parent links, as the hierarchy commands leave them when entities are
\* made children of each other (no entity is its own parent), after Startup
\* and PostStartup: every World Pose is the copy of the Local Pose that
\* add_global_transforms attached, and the PostUpdate systems have not run.
\* The poses are half turns, whose products are eight motors in all.
InitLinks ==
    /\ InitWalk
    /\ parent \in [Nodes -> Nodes \cup {NoParent}]
    /\ \A n \in Nodes : parent[n] # n
    /\ transform \in [Nodes -> {rotation_xy_pi, rotation_yz_pi}]
    /\ tChanged = [n \in Nodes |-> TRUE]
    /\ pChanged = [n \in Nodes |-> parent[n] # NoParent]
    /\ global = transform
    /\ ran = FALSE
    /\ sinceTick = 0
    /\ gChangedS = [n \in Nodes |-> TRUE]
    /\ gChangedC = [n \in Nodes |-> TRUE]

SpecLinks == InitLinks /\ [][NextWalk]_vars

\* a closure that has been entered is run to its end by the thread that
\* took it
SpecLinksLive ==
    SpecLinks /\ \A n \in Nodes : WF_vars(Ascend(n) \/ Store(n))

\* The math library on its own: the operands are drawn once, and each step
\* evaluates the two sides of one law on them.
\* Motors: the identity, a translation, a half turn, a half turn about another
\* axis after a translation (its e0123 is not 0), a motor of unit norm that is
\* no product of translations and rotations, and one with no zero among its
\* eight coefficients.
MotorSamples ==
    {IDENTITY, translation(Vector3(2, 0, 0)), rotation_xy_pi,
     apply(rotation_yz_pi, translation(Vector3(2, 0, 0))),
     Motor(1, 0, 0, 0, 0, 0, 0, 1), Motor(2, 1, -1, 3, 1, -2, 2, 1)}

VectorSamples == {Vector3(2, 0, 0), Vector3(0, 4, -2), Vector3(-2, 2, 6)}

PointSamples == {PointFrom(Vector3(1, 2, 3)), Point(2, 0, -4, 2)}

InitMath ==
    /\ InitNodes
    /\ hasTransform = AllFalse
    /\ NoScene
    /\ InitBuffers
    /\ InitSurface(StartupInnerSize)
    /\ InitFrame
    /\ grid = NoGrid
    /\ walk = NoWalk
    /\ \E a \in MotorSamples, b \in MotorSamples, c \in MotorSamples,
          u \in VectorSamples, v \in VectorSamples, p \in PointSamples :
           call = Operands(a, b, c, u, v, p)

\* one law evaluated on the operands
Evaluate(law, left, right) ==
    /\ call' = [call EXCEPT !.law = law, !.left = left, !.right = right]
    /\ UNCHANGED <<hierVars, panicked, sphereVars, cameraVars, sphereStateVars,
                   cameraStateVars, sinceUpload, tickVars, renderVars, walk>>

\* IDENTITY on either side of apply
ApplyIdentity ==
    Evaluate("identity",
             <<apply(IDENTITY, call.a), apply(call.a, IDENTITY)>>,
             <<call.a, call.a>>)

\* a motor applied to its inverse
ApplyInverse ==
    Evaluate("inverse", apply(call.a, inverse(call.a)), IDENTITY)

\* three motors composed in the two groupings
ApplyApply ==
    Evaluate("associative",
             apply(apply(call.a, call.b), call.c),
             apply(call.a, apply(call.b, call.c)))

\* two translations composed in both orders, and the translation by the sum
ApplyTranslations ==
    Evaluate("translations",
             <<apply(translation(call.u), translation(call.v)),
               apply(translation(call.v), translation(call.u))>>,
             <<translation(VectorAdd(call.u, call.v)),
               translation(VectorAdd(call.u, call.v))>>)

\* the rotation part of a motor, and the motor
RotationPart ==
    Evaluate("rotation_part", rotation_part(call.a), call.a)

\* a point transformed by two motors in turn and by their product, with the
\* weight after the first motor and the weight before it
TransformTwice ==
    Evaluate("distributes",
             <<PointTransform(PointTransform(call.p, call.a), call.b),
               PointTransform(call.p, call.a).e123>>,
             <<PointTransform(call.p, apply(call.a, call.b)),
               call.p.e123>>)

\* a vector made a Point, translated and made a vector again, and a point
\* transformed by IDENTITY
TransformTranslation ==
    Evaluate("translates",
             <<Vector3From(PointTransform(PointFrom(call.u), translation(call.v))),
               PointTransform(call.p, IDENTITY)>>,
             <<VectorAdd(call.u, call.v), call.p>>)

NextMath ==
    \/ ApplyIdentity
    \/ ApplyInverse
    \/ ApplyApply
    \/ ApplyTranslations
    \/ RotationPart
    \/ TransformTwice
    \/ TransformTranslation

SpecMath == InitMath /\ [][NextMath]_vars

\* ------------------------------------------------------ reference values
\* the node and its ancestors, nearest first
RECURSIVE Ancestry(_)
Ancestry(n) ==
    IF parent[n] = NoParent THEN <<n>> ELSE <<n>> \o Ancestry(parent[n])

\* the local poses of a chain <<node, parent, ..., root>> composed as the walk
\* composes them: each ancestor is the receiver of apply
RECURSIVE Composition(_)
Composition(chain) ==
    IF Len(chain) = 1
    THEN transform[chain[1]]
    ELSE apply(transform[chain[Len(chain)]],
               Composition(SubSeq(chain, 1, Len(chain) - 1)))

\* nothing on the chain of n was written since the last pass: no Transform, no
\* Parent, and no Parent was removed
Quiet(n) ==
    \A a \in Nodes :
        OnChain(a, n) => ~tChanged[a] /\ ~pChanged[a] /\ a \notin removedParents

AfterPass == ran /\ sinceTick = 0 /\ ~panicked

\* ------------------------------------------------------------------ claims

\* the local poses along the chain of n composed with the local pose as the
\* receiver of apply and the root's pose as the last argument:
\* apply(L, apply(M, ... R))
RECURSIVE LocalThenAncestors(_)
LocalThenAncestors(n) ==
    IF parent[n] = NoParent
    THEN transform[n]
    ELSE apply(transform[n], LocalThenAncestors(parent[n]))

\* C1: after every propagation pass, whatever local-pose writes and parent-link
\* insertions, re-targetings and removals came before it, every node with a
\* Transform and a GlobalTransform has as GlobalTransform the composition of
\* its current local pose with the current local poses of its current
\* ancestors, the local pose applied first and the root's pose last.
C1_WorldPoseIsComposition ==
    AfterPass =>
        \A n \in Nodes :
            (hasTransform[n] /\ hasGlobal[n]) => global[n] = LocalThenAncestors(n)

\* The World Pose is never stale for all that: after every pass it is the
\* composition of the current local poses along the current chain in the order
\* the walk composes them.
FreshInWalkOrder ==
    AfterPass =>
        \A n \in Nodes :
            (hasTransform[n] /\ hasGlobal[n]) => global[n] = Composition(Ancestry(n))

\* C2: for a chain root -> mid -> leaf with local poses R, M, L, the World Pose
\* the pass writes for the leaf is apply(L, apply(M, R)).
C2_LeafIsLocalThenAncestors ==
    \A leaf \in Nodes, mid \in Nodes, root \in Nodes :
        ( /\ AfterPass
          /\ parent[leaf] = mid /\ parent[mid] = root /\ parent[root] = NoParent
          /\ leaf \in written )
        => global[leaf] = apply(transform[leaf], apply(transform[mid], transform[root]))

\* C3: a pass that follows another pass does not write the World Pose of a node
\* when no Transform and no Parent on the node's chain was written in between.
C3_ChangeGating ==
    [][ (ran /\ ~panicked' /\ sinceTick' = 0 /\ PostUpdate)
        => \A n \in Nodes :
             (hasTransform[n] /\ hasGlobal[n] /\ Quiet(n))
             => (global'[n] = global[n] /\ n \notin written') ]_vars

\* a pass has just skipped a node with a World Pose and written another one
C3_Witness ==
    /\ AfterPass
    /\ \E n \in Nodes, k \in Nodes :
        hasGlobal[n] /\ n \notin written /\ k \in written

\* C4: the pass after the removal of a node's Parent leaves the node's local
\* pose as it is and rewrites the World Pose of the node and of each of its
\* descendants to the composition along the chain as it now is; a node left
\* without a parent gets its own local pose.
C4_RemovedParentRecomputed ==
    /\ [][ (removedParents # {} /\ ~panicked' /\ sinceTick' = 0 /\ PostUpdate)
           => /\ orphaned' = {n \in removedParents : hasTransform[n]}
              /\ \A n \in orphaned' : transform'[n] = transform[n] ]_vars
    /\ [](AfterPass
          => \A n \in orphaned :
               /\ (hasGlobal[n] /\ parent[n] = NoParent) => global[n] = transform[n]
               /\ \A d \in Nodes :
                    (OnChain(n, d) /\ hasGlobal[d])
                    => (d \in written /\ global[d] = Composition(Ancestry(d))))

\* a pass has just served the removal of a Parent: the orphan is a root now,
\* and a descendant of it was rewritten to a World Pose that is not its own
\* local pose
C4_Witness ==
    /\ AfterPass
    /\ \E n \in orphaned, d \in Nodes :
        /\ d # n /\ OnChain(n, d)
        /\ parent[n] = NoParent
        /\ d \in written /\ n \in written
        /\ global[d] # transform[d]

\* C5: a node that was given its World Pose by a pass (a copy of its local
\* pose) has, when the next pass ends, the composition with its ancestors'
\* local poses as its World Pose.
C5_AttachedThenComposed ==
    [][ (PostUpdate /\ ~panicked')
        => \A n \in attached :
             (hasTransform[n] /\ hasGlobal[n])
             => global'[n] = (Composition(Ancestry(n)))' ]_vars

\* C6: when a pass ends, a node has a World Pose exactly if it has a Local Pose.
C6_WorldPoseIffLocalPose ==
    [][ PostUpdate => \A n \in Nodes : hasGlobal'[n] <=> hasTransform'[n] ]_vars

\* C7: in a scene of one main camera and one sphere that nothing touches after
\* startup, once a render tick has run the camera buffer has been written
\* exactly once and the sphere buffer exactly once, however many update ticks
\* and render ticks have run.
C7_StaticSceneWrittenOnce ==
    (renders >= 1 /\ ~panicked) => (cameraWrites = 1 /\ sphereWrites = 1)

\* several render ticks have run, the last of them after a further update tick
C7_Witness ==
    /\ renders > 1 /\ ~panicked
    /\ cameraWrites = 1 /\ sphereWrites = 1
    /\ sphereUpload.ran /\ ~sphereUpload.wrote
    /\ cameraUpload.ran /\ ~cameraUpload.wrote

\* the triples (World Pose, color, radius) of the nodes that own all three
CurrentTriples ==
    {GpuSphere(global[n], color[n], radius[n]) :
        n \in {k \in Nodes : hasGlobal[k] /\ hasMaterial[k] /\ hasSphere[k]}}

C9_SphereBufferGrowth ==
    /\ [](/\ sphere_bind_group = sphere_buffer.id
          /\ sphere_buffer.size >= PackedLen(sphere_buffer.data.length))
    /\ [][sphere_buffer'.size >= sphere_buffer.size]_vars
    /\ [][ RunUpdateSpheres
           => LET count == Cardinality({n \in Nodes : hasGlobal[n] /\ hasMaterial[n]
                                                     /\ hasSphere[n]})
              IN  IF PackedLen(count) > sphere_buffer.size
                  THEN /\ sphereUpload'.created = 1 /\ sphereUpload'.bound = 1
                       /\ sphereUpload'.wrote
                       /\ sphere_buffer'.id # sphere_buffer.id
                       /\ sphere_buffer'.size = PackedLen(count)
                  ELSE /\ sphereUpload'.created = 0 /\ sphereUpload'.bound = 0
                       /\ sphere_buffer'.id = sphere_buffer.id
                       /\ sphere_buffer'.size = sphere_buffer.size ]_vars

\* an upload has just replaced the buffer FromWorld created by a larger one
C9_Witness ==
    /\ sphereUpload.ran /\ sphereUpload.created = 1 /\ sphereUpload.bound = 1
    /\ sphere_buffer.size > MinSize
    /\ sphere_buffer.size = PackedLen(Len(spheres))
    /\ sphere_bind_group = sphere_buffer.id

IndexOf(op, ops) ==
    IF \E i \in DOMAIN ops : ops[i] = op
    THEN CHOOSE i \in DOMAIN ops : ops[i] = op /\ \A j \in 1..(i - 1) : ops[j] # op
    ELSE 0

\* how many times op occurs in ops
Count(op, ops) == Cardinality({i \in DOMAIN ops : ops[i] = op})

\* a occurs in ops, and before b does
Precedes(a, b, ops) == IndexOf(a, ops) > 0 /\ IndexOf(a, ops) < IndexOf(b, ops)

\* this run of the RenderSchedule has dispatched the compute pass
Dispatched == Count("dispatch_workgroups", frame) > 0

\* Within a run of the RenderSchedule both uploads come before the dispatch.
UploadsPrecedeDispatch ==
    Dispatched =>
        /\ Precedes("update_camera", "dispatch_workgroups", frame)
        /\ Precedes("update_spheres", "dispatch_workgroups", frame)

C12_RenderTerminates == rendering ~> ~rendering

\* this run of the RenderSchedule has handed commands to the queue or an image
\* to the display
Submitted == Count("submit", frame) > 0
Presented == Count("present", frame) > 0

\* C13: commands are submitted and an image is presented only in a run whose
\* acquisition succeeded.  On Timeout render returns: the loop is left with
\* nothing submitted and nothing presented, and the surface configuration,
\* the surface, the main texture and its binding are what they were.  On
\* OutOfMemory the process panics.
C13_PresentOnlyAfterAcquisition ==
    /\ [](/\ (Submitted \/ Presented) => acquisition = "Ok"
          /\ acquisition = "Timeout" => ~rendering /\ ~Submitted /\ ~Presented
          /\ acquisition = "OutOfMemory" => panicked /\ ~rendering)
    /\ [][acquisition' = "Timeout" => UNCHANGED surfaceVars]_vars

\* a run on the running scene whose acquisition timed out
C13_Witness ==
    /\ ran /\ ~panicked
    /\ acquisition = "Timeout"
    /\ ~rendering
    /\ Len(frame) = 2

\* the larger of x and 1
AtLeastOne(x) == IF x >= 1 THEN x ELSE 1

\* the extent with each side raised to 1 at least
AtLeastOneByOne(size) == Extent(AtLeastOne(size.width), AtLeastOne(size.height))

\* C14: when the acquisition returns Outdated, the surface configuration, the
\* configured surface, the main texture and the view bound in group 0 all
\* take the window's current inner size, each side raised to 1 at least, and
\* render is back at its acquisition, in the same run.
C14_OutdatedResizesToWindow ==
    acquisition = "Outdated" =>
        /\ rendering
        /\ surface_config = AtLeastOneByOne(window_inner)
        /\ surface = AtLeastOneByOne(window_inner)
        /\ main_texture = AtLeastOneByOne(window_inner)
        /\ main_texture_bind_group = AtLeastOneByOne(window_inner)

\* the window was resized to 17 by 0 after startup, and the next acquisition
\* returned Outdated
C14_Witness ==
    /\ ran /\ ~panicked
    /\ window_inner = Extent(17, 0)
    /\ window_size = Extent(17, 1)
    /\ acquisition = "Outdated"
    /\ main_texture = Extent(17, 1)

\* C15: when the acquisition returns Lost, the surface is configured again
\* with the configuration RenderState already holds, and render is back at its
\* acquisition; the surface configuration, the main texture, the view bound
\* in group 0 and the sphere bind group are what they were.
C15_LostReconfiguresInPlace ==
    [][acquisition' = "Lost" =>
          /\ surface' = surface_config
          /\ rendering'
          /\ UNCHANGED <<surface_config, main_texture, main_texture_bind_group,
                         sphere_bind_group>>]_vars

\* the surface was lost while the window, resized since the surface was last
\* configured, has another size than the configuration
C15_Witness ==
    /\ ran /\ ~panicked
    /\ acquisition = "Lost"
    /\ rendering
    /\ surface_config # AtLeastOneByOne(window_inner)
    /\ surface = surface_config
    /\ main_texture = surface_config

\* C16: in every reachable state the main texture, the view bound in group 0
\* and the surface configuration have the same width and the same height, and
\* a copy that was encoded has a source and a target of the extent it copies.
C16_ExtentsAgree ==
    /\ main_texture.width = surface_config.width
    /\ main_texture.height = surface_config.height
    /\ main_texture_bind_group = main_texture
    /\ Count("copy_texture_to_texture", frame) > 0 =>
           /\ copy.source = copy.extent
           /\ copy.target = copy.extent

\* a later frame, copied at 17 by 1, of a window that was resized to 17 by 0
C16_Witness ==
    /\ renders > 1 /\ ~panicked
    /\ window_size = Extent(17, 1)
    /\ acquisition = "Ok"
    /\ copy = [source |-> Extent(17, 1), target |-> Extent(17, 1), extent |-> Extent(17, 1)]
    /\ main_texture_bind_group = Extent(17, 1)

\* C17: resize(w, h) leaves the dimensions (max(w, 1), max(h, 1)), and (1, 1)
\* for resize(0, 0); the surface configuration, at startup and after every
\* resize, has a width and a height of 1 at least.
C17_ResizeClampsToOne ==
    /\ surface_config.width >= 1
    /\ surface_config.height >= 1
    /\ \A size \in SizeSet :
           Resize(size.width, size.height).surface_config = AtLeastOneByOne(size)
    /\ (acquisition = "Outdated" /\ window_inner = Extent(0, 0)) =>
           /\ surface_config = Extent(1, 1)
           /\ main_texture = Extent(1, 1)

\* render, in a later run of the RenderSchedule, has resized to a window of
\* 0 by 0
C17_Witness ==
    /\ renders > 1 /\ ~panicked
    /\ acquisition = "Outdated"
    /\ window_inner = Extent(0, 0)
    /\ surface_config = Extent(1, 1)

\* C18: a frame dispatched after the runner has handled Resized(size) runs on
\* resources resized for it: the surface configuration, the main texture and
\* the view bound in group 0 have the size of the event, each side raised to 1
\* at least.
C18_ResizedEventResizes ==
    Dispatched =>
        /\ surface_config = AtLeastOneByOne(window_inner)
        /\ main_texture = AtLeastOneByOne(window_inner)
        /\ main_texture_bind_group = AtLeastOneByOne(window_inner)

\* the calls the dispatcher makes on an acquired image, in the order claimed
DispatcherOrder ==
    <<"dispatch_workgroups", "end_pass", "copy_texture_to_texture", "submit",
      "pre_present_notify", "present">>

\* C19: in a run that acquired an image, the three bind groups are set once
\* each before the dispatch, and the dispatch, the end of the pass, the copy,
\* the submit, the pre-present notification and the present happen once each,
\* in that order; in no run is an image presented without a submit before it.
C19_FrameOrder ==
    /\ acquisition = "Ok" =>
           /\ \A g \in {"set_bind_group 0", "set_bind_group 1", "set_bind_group 2"} :
                  /\ Count(g, frame) = 1
                  /\ Precedes(g, "dispatch_workgroups", frame)
           /\ \A i \in DOMAIN DispatcherOrder : Count(DispatcherOrder[i], frame) = 1
           /\ \A i \in 1..(Len(DispatcherOrder) - 1) :
                  Precedes(DispatcherOrder[i], DispatcherOrder[i + 1], frame)
    /\ Presented => Precedes("submit", "present", frame)

\* a run on the running scene that acquired an image and presented it
C19_Witness ==
    /\ ran /\ ~panicked
    /\ acquisition = "Ok"
    /\ ~rendering
    /\ Presented
    /\ frame[Len(frame)] = "present"

\* 16 * g for a count g, as halves; hi reaches Half when the product is 2^32
TimesWorkgroup(g) ==
    U32(g \div (Half \div WorkgroupSize), (g % (Half \div WorkgroupSize)) * WorkgroupSize)

\* a < b for numbers given as halves
LessThan(a, b) == a.hi < b.hi \/ (a.hi = b.hi /\ a.lo < b.lo)

\* 16 * (g - 1) < extent <= 16 * g
Covers(g, extent) ==
    /\ g >= 1
    /\ LessThan(TimesWorkgroup(g - 1), extent)
    /\ ~LessThan(TimesWorkgroup(g), extent)

MainCameras == {n \in Nodes : hasGlobal[n] /\ hasCamera[n] /\ mainCamera[n]}

C22_IdentityLaws ==
    call.law = "identity" => call.left = call.right

\* the law has been evaluated on a motor none of whose parts is trivial
C22_Witness ==
    /\ call.law = "identity"
    /\ call.a = Motor(2, 1, -1, 3, 1, -2, 2, 1)
    /\ call.left = <<call.a, call.a>>

\* s^2 + e12^2 + e13^2 + e23^2 = 1
UnitNorm(m) == m.s * m.s + m.e12 * m.e12 + m.e13 * m.e13 + m.e23 * m.e23 = 1

\* the scalar and the pseudoscalar against the rotation and translation
\* coefficients: 0 for every product of translations and rotations
Study(m) == m.s * m.e0123 + m.e13 * m.e02 - m.e12 * m.e03 - m.e23 * m.e01

\* C23 as stated: every motor of unit norm composed with its inverse gives
\* IDENTITY in all eight coefficients.
C23_InverseOfUnitNorm ==
    (call.law = "inverse" /\ UnitNorm(call.a)) => call.left = call.right

\* C23: every motor of unit norm whose coefficients also satisfy
\* s*e0123 + e13*e02 - e12*e03 - e23*e01 = 0 composed with its inverse gives
\* IDENTITY in all eight coefficients; what is left over otherwise is twice
\* that expression, in e0123.
C23_InverseOfRigidMotion ==
    (call.law = "inverse" /\ UnitNorm(call.a)) =>
        call.left = [IDENTITY EXCEPT !.e0123 = 2 * Study(call.a)]

\* the law has been evaluated on a rigid motion with a pseudoscalar part
C23_Witness ==
    /\ call.law = "inverse"
    /\ UnitNorm(call.a)
    /\ Study(call.a) = 0
    /\ call.a.e0123 # 0
    /\ call.left = IDENTITY

\* C24: apply is associative, coefficient by coefficient, for motors of
\* arbitrary coefficients.
C24_Associative ==
    call.law = "associative" => call.left = call.right

\* the two groupings have been evaluated on a translation, a half turn that
\* does not commute with it, and a motor that is no rigid motion
C24_Witness ==
    /\ call.law = "associative"
    /\ call.a = translation(Vector3(2, 0, 0))
    /\ call.b = rotation_xy_pi
    /\ call.c = Motor(2, 1, -1, 3, 1, -2, 2, 1)
    /\ apply(call.a, call.b) # apply(call.b, call.a)
    /\ call.left = call.right

\* C25: two translations composed in either order give the translation by
\* the sum of their vectors.
C25_TranslationsAddAndCommute ==
    call.law = "translations" => call.left = call.right

\* two different translations, neither along the other, have been composed
C25_Witness ==
    /\ call.law = "translations"
    /\ call.u = Vector3(0, 4, -2)
    /\ call.v = Vector3(-2, 2, 6)
    /\ call.left[1] = Motor(1, 0, 0, 0, 1, -3, -2, 0)
    /\ call.left[2] = call.left[1]

\* C26 as stated: rotation_part sets e01, e02 and e03 to 0 and keeps the
\* other five coefficients, e0123 among them.
C26_RotationPartKeepsPseudoscalar ==
    call.law = "rotation_part" =>
        call.left = [call.right EXCEPT !.e01 = 0, !.e02 = 0, !.e03 = 0]

\* C26: rotation_part sets e01, e02, e03 and e0123 to 0 and keeps s, e12,
\* e13 and e23.
C26_RotationPartIsRotor ==
    call.law = "rotation_part" =>
        call.left = [call.right EXCEPT !.e01 = 0, !.e02 = 0, !.e03 = 0, !.e0123 = 0]

\* the rotation part of a rigid motion with a pseudoscalar part was taken
C26_Witness ==
    /\ call.law = "rotation_part"
    /\ call.right = apply(rotation_yz_pi, translation(Vector3(2, 0, 0)))
    /\ call.right.e0123 # 0
    /\ call.left = rotation_yz_pi

\* a product of translations and rotations: of unit norm, and with scalar and
\* pseudoscalar balanced against the other six coefficients
Valid(m) == UnitNorm(m) /\ Study(m) = 0

\* C29: for rigid motions a and b and every point p, transforming p by a and
\* then by b gives what transforming p by apply(a, b) gives, and every motor
\* of unit norm leaves the weight e123 of the point as it was.
C29_TransformDistributes ==
    call.law = "distributes" =>
        /\ (Valid(call.a) /\ Valid(call.b)) => call.left[1] = call.right[1]
        /\ UnitNorm(call.a) => call.left[2] = call.right[2]

\* a point of weight 2 has gone through a translation and then a half turn,
\* which in the other order take it elsewhere
C29_Witness ==
    /\ call.law = "distributes"
    /\ call.a = translation(Vector3(2, 0, 0))
    /\ call.b = rotation_xy_pi
    /\ call.p.e123 = 2
    /\ call.left = call.right
    /\ call.left[1] # PointTransform(PointTransform(call.p, call.b), call.a)

\* C30: a vector p made a Point, transformed by translation(v) and made a
\* vector again is p + v, and IDENTITY transforms every point to itself.
C30_TranslationMovesPoints ==
    call.law = "translates" => call.left = call.right

\* a vector with three different components was moved along all three axes
C30_Witness ==
    /\ call.law = "translates"
    /\ call.u = Vector3(0, 4, -2)
    /\ call.v = Vector3(-2, 2, 6)
    /\ call.left[1] = Vector3(-2, 6, 4)
    /\ call.left[2] = call.p

\* ------------------------------------------------- the pass, step by step
\* C27: the walk of every node comes to an end, by running out of parents or
\* by a fatal error, whatever the parent links are.
C27_WalkTerminates ==
    \A n \in Nodes : (walk[n].pc = "loop") ~> (walk[n].pc = "done" \/ panicked)

\* C28: however the closures of a pass interleave, when all have returned the
\* World Poses written, and the nodes they were written for, are those the
\* walks give one after the other over the Local Poses and parent links;
\* a World Pose changes only in the last step of the closure of its own node,
\* and no step of a closure changes a Local Pose, a parent link or their
\* change flags.
C28_OrderIndependent ==
    /\ [](AllDone =>
            \A n \in Nodes :
                /\ (n \in written) <=> Walk(n, transform, tChanged).changed
                /\ n \in written =>
                      /\ global[n] = Walk(n, transform, tChanged).motor
                      /\ gChangedS[n] /\ gChangedC[n])
    /\ [][\A n \in Nodes :
             global'[n] # global[n] =>
                 /\ walk[n].pc = "loop" /\ walk'[n].pc = "done"
                 /\ \A k \in Nodes \ {n} : global'[k] = global[k] /\ walk'[k] = walk[k]]_vars
    /\ [][(walk' # walk /\ walk' # NoWalk) =>
             UNCHANGED <<transform, parent, tChanged, pChanged>>]_vars

\* all closures of a pass have returned; a node under a parent was written
\* while its parent, whose own chain did not change, was not
C28_Witness ==
    /\ AllDone
    /\ \E n \in written :
          /\ parent[n] # NoParent
          /\ parent[n] \notin written
          /\ global[n] # transform[n]

====
